---- MODULE Spec2Model ----
(***************************************************************************)
(* Model of src/gz_header_cleaner.py: the GZIP header parser               *)
(* (parse_gzip_header), the cleaning predicate (needs_cleaning), the       *)
(* header rewriter (rewrite_header_only), the temp-file-plus-rename        *)
(* wrapper (clean_file), the directory driver (clean_gzip_headers) and the *)
(* command line entry point (main).                                        *)
(*                                                                         *)
(* A file is a sequence of bytes (0..255).  Offsets are 0-based as in the  *)
(* source; sequences are 1-based, so the byte at offset k is bytes[k+1].   *)
(* Python's None is modelled by the value None (-1).                       *)
(***************************************************************************)
EXTENDS Integers, Sequences, FiniteSets, TLC

\* ------------------------------------------------------------------ bounds
\* longest enumerated byte tail following the fixed 10-byte header
MaxTail == 3
\* largest number of .gz files in an enumerated multi-file directory
MaxFiles == 2
\* number of times the tool is invoked on the same directory
MaxRuns == 2
\* copy buffer of rewrite_header_only; 1024 * 1024 in the source, scaled
\* down so that the copy loop iterates several times on the short files of
\* the model
BUF == 2

\* ------------------------------------------------------- program constants
FHCRC == 2
FEXTRA == 4
FNAME == 8
FCOMMENT == 16

None == -1

\* ------------------------------------------------------------ byte helpers
Min(a, b) == IF a < b THEN a ELSE b
Max(a, b) == IF a > b THEN a ELSE b

\* flg & bit  (bit is a power of two)
HasFlag(flg, bit) == (flg \div bit) % 2 = 1

\* flg & ~bit
ClearFlag(flg, bit) == IF HasFlag(flg, bit) THEN flg - bit ELSE flg

\* struct.unpack("<I", b)[0]
unpack_I(b) == b[1] + 256 * b[2] + 65536 * b[3] + 16777216 * b[4]

\* struct.unpack("<H", b)[0]
unpack_H(b) == b[1] + 256 * b[2]

\* f.read(n) on a file holding bytes with the cursor at offset pos: the bytes
\* available, at most n of them, none at or beyond end-of-file
read(bytes, pos, n) ==
    IF pos >= Len(bytes) \/ n <= 0 THEN << >>
    ELSE SubSeq(bytes, pos + 1, Min(pos + n, Len(bytes)))

\* ------------------------------------------------------- parse_gzip_header
\* variant of ScanNul that takes end-of-file for a terminator
RECURSIVE ScanNul_eof(_, _)
ScanNul_eof(bytes, idx) ==
    IF read(bytes, idx, 1) = << >> THEN idx
    ELSE IF bytes[idx + 1] = 0 THEN idx + 1
    ELSE ScanNul_eof(bytes, idx + 1)

\* the "while True: b = f.read(1) ..." loop of FNAME and FCOMMENT: the offset
\* just after the first NUL at or after idx, None when read(1) returns b""
\* (end-of-file) first
RECURSIVE ScanNul(_, _)
ScanNul(bytes, idx) ==
    IF read(bytes, idx, 1) = << >> THEN None
    ELSE IF bytes[idx + 1] = 0 THEN idx + 1
    ELSE ScanNul(bytes, idx + 1)

NoOffsets ==
    [start |-> 0, after_fixed |-> 10, extra_len_off |-> None,
     extra_end |-> None, fname_start |-> None, fname_end |-> None,
     fcomment_start |-> None, fcomment_end |-> None, fhcrc_off |-> None,
     payload_start |-> None]

\* raise ValueError(msg)
Raise(msg) ==
    [ok |-> FALSE, err |-> msg, h |-> << >>, flg |-> 0, mtime |-> 0,
     off |-> NoOffsets, pos |-> 0]

\* parse_gzip_header(f) on a freshly opened file (start = f.tell() = 0).
\* Returns the tuple (h, flg, mtime, offsets) with ok = TRUE, or the raised
\* ValueError with ok = FALSE; pos is the read cursor the parser leaves.
\* f.seek(n, os.SEEK_CUR) moves the cursor and never fails, also beyond
\* end-of-file.
parse_gzip_header(bytes) ==
    LET h == read(bytes, 0, 10) IN
    IF Len(h) < 10 \/ h[1] # 31 \/ h[2] # 139 \/ h[3] # 8
    THEN Raise("Not a gzip member")
    ELSE
    LET flg == h[4]
        mtime == unpack_I(SubSeq(h, 5, 8))
        idx0 == 10
        raw == read(bytes, idx0, 2)
    IN
    IF HasFlag(flg, FEXTRA) /\ Len(raw) < 2
    THEN Raise("Truncated EXTRA length")
    ELSE
    LET extra_len_off == IF HasFlag(flg, FEXTRA) THEN idx0 ELSE None
        idx1 == IF HasFlag(flg, FEXTRA) THEN idx0 + 2 + unpack_H(raw) ELSE idx0
        extra_end == IF HasFlag(flg, FEXTRA) THEN idx1 ELSE None
        fname_start == IF HasFlag(flg, FNAME) THEN idx1 ELSE None
        fname_end == IF HasFlag(flg, FNAME) THEN ScanNul(bytes, idx1) ELSE None
    IN
    IF HasFlag(flg, FNAME) /\ fname_end = None
    THEN Raise("Truncated FNAME")
    ELSE
    LET idx2 == IF HasFlag(flg, FNAME) THEN fname_end ELSE idx1
        fcomment_start == IF HasFlag(flg, FCOMMENT) THEN idx2 ELSE None
        fcomment_end ==
            IF HasFlag(flg, FCOMMENT) THEN ScanNul(bytes, idx2) ELSE None
    IN
    IF HasFlag(flg, FCOMMENT) /\ fcomment_end = None
    THEN Raise("Truncated FCOMMENT")
    ELSE
    LET idx3 == IF HasFlag(flg, FCOMMENT) THEN fcomment_end ELSE idx2
        fhcrc_off == IF HasFlag(flg, FHCRC) THEN idx3 ELSE None
        idx4 == IF HasFlag(flg, FHCRC) THEN idx3 + 2 ELSE idx3
    IN
    [ok |-> TRUE, err |-> "", h |-> h, flg |-> flg, mtime |-> mtime,
     off |-> [start |-> 0, after_fixed |-> 10,
              extra_len_off |-> extra_len_off, extra_end |-> extra_end,
              fname_start |-> fname_start, fname_end |-> fname_end,
              fcomment_start |-> fcomment_start,
              fcomment_end |-> fcomment_end,
              fhcrc_off |-> fhcrc_off, payload_start |-> idx4],
     pos |-> idx4]

\* ------------------------------------------------------------ needs_cleaning
\* needs_cleaning(path) on a file holding bytes: the returned tuple
\* (need_mtime, need_fname, need_fhcrc, flg, mtime); parse errors propagate
needs_cleaning(bytes) ==
    LET m == parse_gzip_header(bytes) IN
    [ok |-> m.ok, err |-> m.err,
     need_mtime |-> (m.mtime # 0),
     need_fname |-> HasFlag(m.flg, FNAME),
     need_fhcrc |-> HasFlag(m.flg, FHCRC),
     flg |-> m.flg, mtime |-> m.mtime]

\* variant of ShouldClean that also rewrites for FHCRC alone
ShouldClean_fhcrc(need_mtime, need_fname, need_fhcrc) ==
    need_mtime \/ need_fname \/ need_fhcrc

\* the driver's test "if need_mtime or need_fname:" (need_fhcrc only adds
\* to the printed list of issues)
ShouldClean(need_mtime, need_fname, need_fhcrc) == need_mtime \/ need_fname

\* ------------------------------------------------------ rewrite_header_only
\* variant of new_flg that leaves the FHCRC bit alone
new_flg_keepcrc(flg) == ClearFlag(flg, FNAME)

\* variant of new_flg that keeps only the bits of the fields it copies
new_flg_onlyknown(flg) ==
    (IF HasFlag(flg, FEXTRA) THEN FEXTRA ELSE 0)
        + (IF HasFlag(flg, FCOMMENT) THEN FCOMMENT ELSE 0)

\* new_flg: FNAME always cleared, FHCRC cleared when it was set
new_flg(flg) ==
    LET a == ClearFlag(flg, FNAME) IN
    IF HasFlag(flg, FHCRC) THEN ClearFlag(a, FHCRC) ELSE a

\* variant of new_fixed that keeps the MTIME bytes
new_fixed_keepmtime(first10, flg) ==
    [k \in 1..Len(first10) |-> IF k = 4 THEN new_flg(flg) ELSE first10[k]]

\* new_fixed: first10 with byte 3 := new_flg and bytes 4..7 := 0
new_fixed(first10, flg) ==
    [k \in 1..Len(first10) |->
        IF k = 4 THEN new_flg(flg)
        ELSE IF k \in 5..8 THEN 0
        ELSE first10[k]]

\* variant of extra_span that copies the data without its length field
extra_span_nolen(bytes, off) ==
    read(bytes, off.extra_len_off + 2, off.extra_end - off.extra_len_off - 2)

\* inf.seek(off['extra_len_off']); inf.read(extra_end - extra_len_off)
extra_span(bytes, off) ==
    read(bytes, off.extra_len_off, off.extra_end - off.extra_len_off)

\* inf.seek(off['fcomment_start']); inf.read(fcomment_end - fcomment_start)
comment_span(bytes, off) ==
    read(bytes, off.fcomment_start, off.fcomment_end - off.fcomment_start)

\* variant of payload_from that starts the copy at the FHCRC field
payload_from_keepcrc(flg, off) ==
    IF HasFlag(flg, FHCRC) /\ off.fhcrc_off # None
    THEN off.fhcrc_off
    ELSE off.payload_start

\* variant of payload_from that copies everything after the fixed header
payload_from_rewind(flg, off) == off.after_fixed

\* payload_from: payload_start, or fhcrc_off + 2 when FHCRC is dropped
payload_from(flg, off) ==
    IF HasFlag(flg, FHCRC) /\ off.fhcrc_off # None
    THEN off.fhcrc_off + 2
    ELSE off.payload_start

\* ------------------------------------------------------------------- paths
\* a path is its stem (a number standing for "sub-01_T1w.nii" and the like)
\* and the list of dot-separated parts of Path.suffix handling
GzPath(n) == [name |-> n, suffix |-> <<"gz">>]

\* variant of tmp_path that writes in place
tmp_path_inplace(path) == path

\* variant of tmp_path that uses one temporary name for the directory
tmp_path_fixed(path) == [name |-> 0, suffix |-> <<"gz", "tmp">>]

\* path.with_suffix(path.suffix + ".tmp")
tmp_path(path) == [path EXCEPT !.suffix = Append(path.suffix, "tmp")]

\* root.rglob("*.gz"): the existing paths whose last suffix is .gz
rglob_gz(files) ==
    {p \in DOMAIN files : p.suffix[Len(p.suffix)] = "gz"}

\* sorted(targets)
RECURSIVE sorted(_)
sorted(S) ==
    IF S = {} THEN << >>
    ELSE LET p == CHOOSE q \in S : \A r \in S : q.name <= r.name
         IN <<p>> \o sorted(S \ {p})

\* ------------------------------------------------------------------ inputs
Fixed(flg, mt, xfl, os) == <<31, 139, 8, flg>> \o mt \o <<xfl, os>>

\* every combination of FHCRC, FEXTRA, FNAME, FCOMMENT, without and with
\* FTEXT (0x01) and the reserved bit 0x20
FlagBytes ==
    {2 * a + 4 * b + 8 * c + 16 * d + 33 * e :
        a \in {0, 1}, b \in {0, 1}, c \in {0, 1}, d \in {0, 1}, e \in {0, 1}}

MTimes == {<<0, 0, 0, 0>>, <<0, 0, 1, 0>>}

TailBytes == {0, 1, 2}

Tails == UNION {[1..n -> TailBytes] : n \in 0..MaxTail}

\* a valid fixed header followed by every short byte tail
EnumInputs == {Fixed(f, mt, 0, 3) \o t : f \in FlagBytes, mt \in MTimes, t \in Tails}

\* 1F 8B 08 08 <mtime> 00 03 "data.nii\0" D1 D2 D3 C1 C2 C3 C4 L1 L2 L3 L4
Scenario ==
    Fixed(8, <<18, 52, 86, 120>>, 0, 3)
        \o <<100, 97, 116, 97, 46, 110, 105, 105, 0>>
        \o <<209, 210, 211>> \o <<193, 194, 195, 196, 161, 162, 163, 164>>

\* all four optional fields present and complete
AllFields ==
    Fixed(30, <<1, 0, 0, 0>>, 2, 255)
        \o <<2, 0, 7, 9>> \o <<110, 0>> \o <<99, 0>> \o <<171, 205>>
        \o <<209, 210, 211>>

\* FEXTRA and FCOMMENT only, MTIME set
ExtraComment ==
    Fixed(20, <<0, 0, 0, 1>>, 0, 3) \o <<1, 0, 7>> \o <<99, 99, 0>> \o <<209, 210, 211>>

\* a second member whose own header has FNAME and a nonzero MTIME
Member2 == Fixed(8, <<5, 0, 0, 0>>, 0, 3) \o <<109, 0>> \o <<77>>

MultiMember == Fixed(8, <<0, 0, 1, 0>>, 0, 3) \o <<110, 0>> \o <<209>> \o Member2

CleanFile == Fixed(0, <<0, 0, 0, 0>>, 0, 3) \o <<209, 210>>

FhcrcOnly == Fixed(2, <<0, 0, 0, 0>>, 0, 3) \o <<171, 205, 209>>

NameOnly == Fixed(8, <<0, 0, 1, 0>>, 0, 3) \o <<110, 0, 209>>

BadMagic == <<31, 140, 8, 0, 0, 0, 0, 0, 0, 3, 1>>

BadMethod == <<31, 139, 7, 8, 1, 0, 0, 0, 0, 3, 1, 0>>

ShortFile == <<31, 139, 8>>

StructInputs ==
    {Scenario, AllFields, ExtraComment, MultiMember, CleanFile, FhcrcOnly,
     NameOnly, BadMagic, BadMethod, ShortFile, << >>}

SmallInputs == {CleanFile, FhcrcOnly, NameOnly, BadMagic}

\* directories: one file with any enumerated content, or several files with
\* representative contents, or no .gz file at all
Dirs ==
    [{1} -> EnumInputs \cup StructInputs]
        \cup UNION {[1..n -> SmallInputs] : n \in 2..MaxFiles}
        \cup {<< >>}

DirFs(d) == [p \in {GzPath(n) : n \in DOMAIN d} |-> d[p.name]]

\* argparse namespace of main
Args == [dry_run : BOOLEAN, verbose : BOOLEAN, quiet : BOOLEAN]

\* ------------------------------------------------------------------- state
VARIABLES
    fs,        \* the directory tree: existing path -> bytes of the file
    args,      \* parsed command line
    run,       \* number of the current invocation of the tool
    pc,        \* position in main / clean_gzip_headers / clean_file
    targets,   \* sorted(targets)
    i,         \* position of the for loop in targets (1-based)
    total,     \* counters of clean_gzip_headers
    changed,
    errors,
    need,      \* tuple returned by needs_cleaning for the current file
    meta,      \* tuple returned by parse_gzip_header inside clean_file
    inf_pos,   \* read cursor of inf in clean_file
    stdout,    \* lines printed so far
    results,   \* (total, changed, errors) returned by each invocation
    orig,      \* history: the directory tree before the first invocation
    atstart,   \* history: the directory tree when the current run started
    faulted,   \* history: runs in which the environment failed an I/O call
    w          \* state of the per-file workers of the parallel driver

vars ==
    <<fs, args, run, pc, targets, i, total, changed, errors, need, meta,
      inf_pos, stdout, results, orig, atstart, faulted, w>>

\* verbose = args.verbose and not args.quiet
verbose == args.verbose /\ ~args.quiet

\* the loop variable p
p == targets[i]

NoNeed == needs_cleaning(<< >>)
NoMeta == Raise("")

\* one printed line
Msg(kind, name, nums, issues) ==
    [msg |-> kind, name |-> name, nums |-> nums, issues |-> issues]

\* print(...) under "if verbose:"
PrintIfVerbose(m) == IF verbose THEN Append(stdout, m) ELSE stdout

\* the list "issues" built by the driver
issues ==
    (IF need.need_mtime THEN <<"mtime">> ELSE << >>)
        \o (IF need.need_fname THEN <<"filename">> ELSE << >>)
        \o (IF need.need_fhcrc THEN <<"crc">> ELSE << >>)

\* outf.write(data): append to the temporary file
write(files, path, data) == [files EXCEPT ![path] = @ \o data]

\* open(path, "wb"): create the file, or truncate it when it exists
open_wb(files, path) ==
    [q \in DOMAIN files \cup {path} |-> IF q = path THEN << >> ELSE files[q]]

\* os.replace(src, dst): dst gets the content of src, src disappears
replace(files, src, dst) ==
    [q \in (DOMAIN files \ {src}) \cup {dst} |->
        IF q = dst THEN files[src] ELSE files[q]]

Init ==
    \E d \in Dirs, a \in Args :
        /\ fs = DirFs(d)
        /\ args = a
        /\ run = 1
        /\ pc = "main"
        /\ targets = << >>
        /\ i = 1
        /\ total = 0
        /\ changed = 0
        /\ errors = 0
        /\ need = NoNeed
        /\ meta = NoMeta
        /\ inf_pos = 0
        /\ stdout = << >>
        /\ results = << >>
        /\ orig = DirFs(d)
        /\ atstart = DirFs(d)
        /\ faulted = {}
        /\ w = << >>

\* ------------------------------------------------------ clean_gzip_headers
\* main calls clean_gzip_headers: rglob, the empty case, counters zeroed
Start ==
    /\ pc = "main"
    /\ targets' = sorted(rglob_gz(fs))
    /\ i' = 1
    /\ IF targets' = << >>
       THEN /\ stdout' = PrintIfVerbose(Msg("no_gz_found", 0, <<0, 0, 0>>, << >>))
            /\ pc' = "summary"
       ELSE /\ stdout' = PrintIfVerbose(
                   Msg("found", 0, <<Len(targets'), 0, 0>>, << >>))
            /\ pc' = "loop"
    /\ total' = 0
    /\ changed' = 0
    /\ errors' = 0
    /\ atstart' = fs
    /\ UNCHANGED <<w, fs, args, run, need, meta, inf_pos, results, orig, faulted>>

\* for p in sorted(targets): total += 1
NextTarget ==
    /\ pc = "loop"
    /\ i <= Len(targets)
    /\ total' = total + 1
    /\ pc' = "check"
    /\ UNCHANGED <<w, fs, args, run, targets, i, changed, errors, need, meta,
                   inf_pos, stdout, results, orig, atstart, faulted>>

\* the loop is exhausted: return total, changed, errors
LoopEnd ==
    /\ pc = "loop"
    /\ i > Len(targets)
    /\ pc' = "summary"
    /\ UNCHANGED <<w, fs, args, run, targets, i, total, changed, errors, need,
                   meta, inf_pos, stdout, results, orig, atstart, faulted>>

\* needs_cleaning(p) returns
CheckOk ==
    /\ pc = "check"
    /\ needs_cleaning(fs[p]).ok
    /\ need' = needs_cleaning(fs[p])
    /\ pc' = "decide"
    /\ UNCHANGED <<w, fs, args, run, targets, i, total, changed, errors, meta,
                   inf_pos, stdout, results, orig, atstart, faulted>>

\* variant of CheckRaises in which the exception ends the loop
CheckRaises_abort ==
    /\ pc = "check"
    /\ \E io \in BOOLEAN :
        /\ io \/ ~needs_cleaning(fs[p]).ok
        /\ faulted' = IF io THEN faulted \cup {run} ELSE faulted
    /\ stdout' = PrintIfVerbose(Msg("error_checking", p.name, <<0, 0, 0>>, << >>))
    /\ errors' = errors + 1
    /\ i' = i + 1
    /\ pc' = "summary"
    /\ UNCHANGED <<w, fs, args, run, targets, total, changed, need, meta,
                   inf_pos, results, orig, atstart>>

\* needs_cleaning(p) raises (the parser's ValueError, or an error of open or
\* read): except Exception -> errors += 1; continue
CheckRaises ==
    /\ pc = "check"
    /\ \E io \in BOOLEAN :
        /\ io \/ ~needs_cleaning(fs[p]).ok
        /\ faulted' = IF io THEN faulted \cup {run} ELSE faulted
    /\ stdout' = PrintIfVerbose(Msg("error_checking", p.name, <<0, 0, 0>>, << >>))
    /\ errors' = errors + 1
    /\ i' = i + 1
    /\ pc' = "loop"
    /\ UNCHANGED <<w, fs, args, run, targets, total, changed, need, meta,
                   inf_pos, results, orig, atstart>>

\* variant of Decide that calls clean_file in dry-run mode too
Decide_ignoredry ==
    /\ pc = "decide"
    /\ IF ShouldClean(need.need_mtime, need.need_fname, need.need_fhcrc)
       THEN /\ pc' = "cf_open"
            /\ UNCHANGED <<stdout, i>>
       ELSE /\ i' = i + 1
            /\ pc' = "loop"
            /\ UNCHANGED stdout
    /\ UNCHANGED <<w, fs, args, run, targets, total, changed, errors, need, meta,
                   inf_pos, results, orig, atstart, faulted>>

\* variant of Decide that counts a file it would clean in dry-run mode
Decide_countdry ==
    /\ pc = "decide"
    /\ IF ShouldClean(need.need_mtime, need.need_fname, need.need_fhcrc)
       THEN IF args.dry_run
            THEN /\ stdout' = PrintIfVerbose(
                        Msg("would_clean", p.name, <<need.mtime, 0, 0>>, issues))
                 /\ i' = i + 1
                 /\ changed' = changed + 1
                 /\ pc' = "loop"
            ELSE /\ pc' = "cf_open"
                 /\ UNCHANGED <<stdout, i, changed>>
       ELSE /\ i' = i + 1
            /\ pc' = "loop"
            /\ UNCHANGED <<stdout, changed>>
    /\ UNCHANGED <<w, fs, args, run, targets, total, errors, need, meta,
                   inf_pos, results, orig, atstart, faulted>>

\* if need_mtime or need_fname: ... if dry_run: ... else: clean_file(p)
Decide ==
    /\ pc = "decide"
    /\ IF ShouldClean(need.need_mtime, need.need_fname, need.need_fhcrc)
       THEN IF args.dry_run
            THEN /\ stdout' = PrintIfVerbose(
                        Msg("would_clean", p.name, <<need.mtime, 0, 0>>, issues))
                 /\ i' = i + 1
                 /\ pc' = "loop"
            ELSE /\ pc' = "cf_open"
                 /\ UNCHANGED <<stdout, i>>
       ELSE /\ i' = i + 1
            /\ pc' = "loop"
            /\ UNCHANGED stdout
    /\ UNCHANGED <<w, fs, args, run, targets, total, changed, errors, need, meta,
                   inf_pos, results, orig, atstart, faulted>>

\* -------------------------------------------------------------- clean_file
\* with open(path, "rb") as inf
CfOpen ==
    /\ pc = "cf_open"
    /\ inf_pos' = 0
    /\ pc' = "cf_parse"
    /\ UNCHANGED <<w, fs, args, run, targets, i, total, changed, errors, need,
                   meta, stdout, results, orig, atstart, faulted>>

\* meta = parse_gzip_header(inf); a ValueError leaves clean_file and is
\* handled by the driver like any other exception
CfParse ==
    /\ pc = "cf_parse"
    /\ meta' = parse_gzip_header(fs[p])
    /\ IF meta'.ok
       THEN /\ inf_pos' = meta'.pos
            /\ pc' = "cf_opentmp"
            /\ UNCHANGED <<stdout, errors, i>>
       ELSE /\ stdout' = PrintIfVerbose(
                   Msg("error_cleaning", p.name, <<0, 0, 0>>, << >>))
            /\ errors' = errors + 1
            /\ i' = i + 1
            /\ pc' = "loop"
            /\ UNCHANGED inf_pos
    /\ UNCHANGED <<w, fs, args, run, targets, total, changed, need, results,
                   orig, atstart, faulted>>

\* tmp = path.with_suffix(path.suffix + ".tmp"); with open(tmp, "wb") as outf
CfOpenTmp ==
    /\ pc = "cf_opentmp"
    /\ fs' = open_wb(fs, tmp_path(p))
    /\ pc' = "rw_fixed"
    /\ UNCHANGED <<w, args, run, targets, i, total, changed, errors, need, meta,
                   inf_pos, stdout, results, orig, atstart, faulted>>

\* rewrite_header_only: outf.write(new_fixed)
RwFixed ==
    /\ pc = "rw_fixed"
    /\ fs' = write(fs, tmp_path(p), new_fixed(meta.h, meta.flg))
    /\ pc' = "rw_extra"
    /\ UNCHANGED <<w, args, run, targets, i, total, changed, errors, need, meta,
                   inf_pos, stdout, results, orig, atstart, faulted>>

\* if flg & FEXTRA: seek to extra_len_off and copy the span
RwExtra ==
    /\ pc = "rw_extra"
    /\ IF HasFlag(meta.flg, FEXTRA)
       THEN /\ fs' = write(fs, tmp_path(p), extra_span(fs[p], meta.off))
            /\ inf_pos' = meta.off.extra_len_off
                            + Len(extra_span(fs[p], meta.off))
       ELSE UNCHANGED <<fs, inf_pos>>
    /\ pc' = "rw_comment"
    /\ UNCHANGED <<w, args, run, targets, i, total, changed, errors, need, meta,
                   stdout, results, orig, atstart, faulted>>

\* if flg & FCOMMENT: seek to fcomment_start and copy the span
RwComment ==
    /\ pc = "rw_comment"
    /\ IF HasFlag(meta.flg, FCOMMENT)
       THEN /\ fs' = write(fs, tmp_path(p), comment_span(fs[p], meta.off))
            /\ inf_pos' = meta.off.fcomment_start
                            + Len(comment_span(fs[p], meta.off))
       ELSE UNCHANGED <<fs, inf_pos>>
    /\ pc' = "rw_seek"
    /\ UNCHANGED <<w, args, run, targets, i, total, changed, errors, need, meta,
                   stdout, results, orig, atstart, faulted>>

\* inf.seek(payload_from, os.SEEK_SET)
RwSeek ==
    /\ pc = "rw_seek"
    /\ inf_pos' = payload_from(meta.flg, meta.off)
    /\ pc' = "rw_copy"
    /\ UNCHANGED <<w, fs, args, run, targets, i, total, changed, errors, need,
                   meta, stdout, results, orig, atstart, faulted>>

\* one turn of "while True: chunk = inf.read(BUF) ..."
RwCopy ==
    /\ pc = "rw_copy"
    /\ LET chunk == read(fs[p], inf_pos, BUF) IN
        IF chunk = << >>
        THEN /\ pc' = "cf_close"
             /\ UNCHANGED <<fs, inf_pos>>
        ELSE /\ fs' = write(fs, tmp_path(p), chunk)
             /\ inf_pos' = inf_pos + Len(chunk)
             /\ pc' = "rw_copy"
    /\ UNCHANGED <<w, args, run, targets, i, total, changed, errors, need, meta,
                   stdout, results, orig, atstart, faulted>>

\* leaving "with open(tmp, "wb") as outf": outf is flushed and closed
CfClose ==
    /\ pc = "cf_close"
    /\ pc' = "cf_replace"
    /\ UNCHANGED <<w, fs, args, run, targets, i, total, changed, errors, need,
                   meta, inf_pos, stdout, results, orig, atstart, faulted>>

\* os.replace(tmp, path)
CfReplace ==
    /\ pc = "cf_replace"
    /\ fs' = replace(fs, tmp_path(p), p)
    /\ pc' = "cf_done"
    /\ UNCHANGED <<w, args, run, targets, i, total, changed, errors, need, meta,
                   inf_pos, stdout, results, orig, atstart, faulted>>

\* clean_file returned: print "Cleaned" if verbose; changed += 1
Cleaned ==
    /\ pc = "cf_done"
    /\ stdout' = PrintIfVerbose(Msg("cleaned", p.name, <<need.mtime, 0, 0>>, issues))
    /\ changed' = changed + 1
    /\ i' = i + 1
    /\ pc' = "loop"
    /\ UNCHANGED <<w, fs, args, run, targets, total, errors, need, meta, inf_pos,
                   results, orig, atstart, faulted>>

\* the positions of clean_file at which a system call is made (open, read,
\* seek, write, flush/close, rename) and so can raise OSError
CleanFileSteps ==
    {"cf_open", "cf_parse", "cf_opentmp", "rw_fixed", "rw_extra", "rw_comment",
     "rw_seek", "rw_copy", "cf_close", "cf_replace"}

\* an I/O call of clean_file raises: the with blocks close inf and outf,
\* nothing removes the temporary file, and the driver's
\* "except Exception" prints if verbose and counts the error
CleanRaises ==
    /\ pc \in CleanFileSteps
    /\ stdout' = PrintIfVerbose(Msg("error_cleaning", p.name, <<0, 0, 0>>, << >>))
    /\ errors' = errors + 1
    /\ i' = i + 1
    /\ pc' = "loop"
    /\ faulted' = faulted \cup {run}
    /\ UNCHANGED <<w, fs, args, run, targets, total, changed, need, meta,
                   inf_pos, results, orig, atstart>>

\* -------------------------------------------------------------------- main
\* the lines main prints after clean_gzip_headers returned
summary_lines ==
    IF args.quiet THEN << >>
    ELSE (IF args.dry_run
          THEN <<Msg("dry_run_complete", 0, <<total, changed, errors>>, << >>)>>
          ELSE IF changed > 0
               THEN <<Msg("complete", 0, <<changed, total, 0>>, << >>)>>
               ELSE <<Msg("all_clean", 0, <<total, 0, 0>>, << >>)>>)
         \o (IF errors > 0
             THEN <<Msg("had_errors", 0, <<errors, 0, 0>>, << >>)>>
             ELSE << >>)

\* total, changed, errors = clean_gzip_headers(...); print the summary
Summary ==
    /\ pc = "summary"
    /\ results' = Append(results, <<total, changed, errors>>)
    /\ stdout' = stdout \o summary_lines
    /\ pc' = "exit"
    /\ UNCHANGED <<w, fs, args, run, targets, i, total, changed, errors, need,
                   meta, inf_pos, orig, atstart, faulted>>

\* the tool is run again on the same directory with the same arguments
Rerun ==
    /\ pc = "exit"
    /\ run < MaxRuns
    /\ run' = run + 1
    /\ pc' = "main"
    /\ UNCHANGED <<w, fs, args, targets, i, total, changed, errors, need, meta,
                   inf_pos, stdout, results, orig, atstart, faulted>>

Next ==
    \/ Start
    \/ NextTarget
    \/ LoopEnd
    \/ CheckOk
    \/ CheckRaises
    \/ Decide
    \/ CfOpen
    \/ CfParse
    \/ CfOpenTmp
    \/ RwFixed
    \/ RwExtra
    \/ RwComment
    \/ RwSeek
    \/ RwCopy
    \/ CfClose
    \/ CfReplace
    \/ Cleaned
    \/ CleanRaises
    \/ Summary
    \/ Rerun

Spec == Init /\ [][Next]_vars

\* --------------------------------------------------------- parallel driver
\* The driver fanned out over a worker pool, one worker per discovered file:
\* every worker runs the per-file cycle of the sequential loop body
\* (needs_cleaning, the decision, clean_file) on its own file, the steps of
\* different workers interleave freely, and the counters are merged by
\* atomic addition.

\* contents of the files of a parallel run: two different files that need
\* cleaning, a clean one and a malformed one
ParInputs == {NameOnly, ExtraComment, CleanFile, BadMagic}

ParDirs == UNION {[1..n -> ParInputs] : n \in 1..MaxFiles}

\* a worker before its first step
NewWorker ==
    [pc |-> "check", need |-> NoNeed, meta |-> NoMeta, pos |-> 0,
     failed |-> FALSE]

\* what the worker steps leave alone
seqlocals ==
    <<args, run, targets, i, need, meta, inf_pos, stdout, results, orig,
      atstart, faulted>>

\* the state after discovery, one worker per target
InitPar ==
    \E d \in ParDirs, dry \in BOOLEAN :
        /\ fs = DirFs(d)
        /\ args = [dry_run |-> dry, verbose |-> FALSE, quiet |-> FALSE]
        /\ run = 1
        /\ pc = "workers"
        /\ targets = sorted(rglob_gz(DirFs(d)))
        /\ i = 1
        /\ total = 0
        /\ changed = 0
        /\ errors = 0
        /\ need = NoNeed
        /\ meta = NoMeta
        /\ inf_pos = 0
        /\ stdout = << >>
        /\ results = << >>
        /\ orig = DirFs(d)
        /\ atstart = DirFs(d)
        /\ faulted = {}
        /\ w = [q \in rglob_gz(DirFs(d)) |-> NewWorker]

\* total += 1; needs_cleaning(q) returns
WCheckOk(q) ==
    /\ pc = "workers"
    /\ w[q].pc = "check"
    /\ needs_cleaning(fs[q]).ok
    /\ w' = [w EXCEPT ![q].pc = "decide", ![q].need = needs_cleaning(fs[q])]
    /\ total' = total + 1
    /\ UNCHANGED <<seqlocals, pc, fs, changed, errors>>

\* total += 1; needs_cleaning(q) raises: errors += 1
WCheckRaises(q) ==
    /\ pc = "workers"
    /\ w[q].pc = "check"
    /\ \E io \in BOOLEAN :
        /\ io \/ ~needs_cleaning(fs[q]).ok
        /\ w' = [w EXCEPT ![q].pc = "done", ![q].failed = io]
    /\ total' = total + 1
    /\ errors' = errors + 1
    /\ UNCHANGED <<seqlocals, pc, fs, changed>>

\* if need_mtime or need_fname: if dry_run: ... else: clean_file(q)
WDecide(q) ==
    /\ pc = "workers"
    /\ w[q].pc = "decide"
    /\ w' = [w EXCEPT ![q].pc =
                IF /\ ShouldClean(w[q].need.need_mtime, w[q].need.need_fname,
                                  w[q].need.need_fhcrc)
                   /\ ~args.dry_run
                THEN "cf_open" ELSE "done"]
    /\ UNCHANGED <<seqlocals, pc, fs, total, changed, errors>>

\* with open(path, "rb") as inf
WOpen(q) ==
    /\ pc = "workers"
    /\ w[q].pc = "cf_open"
    /\ w' = [w EXCEPT ![q].pc = "cf_parse", ![q].pos = 0]
    /\ UNCHANGED <<seqlocals, pc, fs, total, changed, errors>>

\* meta = parse_gzip_header(inf)
WParse(q) ==
    /\ pc = "workers"
    /\ w[q].pc = "cf_parse"
    /\ LET m == parse_gzip_header(fs[q]) IN
        IF m.ok
        THEN /\ w' = [w EXCEPT ![q].pc = "cf_opentmp", ![q].meta = m,
                               ![q].pos = m.pos]
             /\ UNCHANGED errors
        ELSE /\ w' = [w EXCEPT ![q].pc = "done", ![q].meta = m]
             /\ errors' = errors + 1
    /\ UNCHANGED <<seqlocals, pc, fs, total, changed>>

\* with open(tmp, "wb") as outf
WOpenTmp(q) ==
    /\ pc = "workers"
    /\ w[q].pc = "cf_opentmp"
    /\ fs' = open_wb(fs, tmp_path(q))
    /\ w' = [w EXCEPT ![q].pc = "rw_fixed"]
    /\ UNCHANGED <<seqlocals, pc, total, changed, errors>>

\* outf.write(new_fixed)
WFixed(q) ==
    /\ pc = "workers"
    /\ w[q].pc = "rw_fixed"
    /\ fs' = write(fs, tmp_path(q), new_fixed(w[q].meta.h, w[q].meta.flg))
    /\ w' = [w EXCEPT ![q].pc = "rw_extra"]
    /\ UNCHANGED <<seqlocals, pc, total, changed, errors>>

\* if flg & FEXTRA: seek to extra_len_off and copy the span
WExtra(q) ==
    /\ pc = "workers"
    /\ w[q].pc = "rw_extra"
    /\ IF HasFlag(w[q].meta.flg, FEXTRA)
       THEN /\ fs' = write(fs, tmp_path(q), extra_span(fs[q], w[q].meta.off))
            /\ w' = [w EXCEPT ![q].pc = "rw_comment",
                              ![q].pos = w[q].meta.off.extra_len_off
                                  + Len(extra_span(fs[q], w[q].meta.off))]
       ELSE /\ w' = [w EXCEPT ![q].pc = "rw_comment"]
            /\ UNCHANGED fs
    /\ UNCHANGED <<seqlocals, pc, total, changed, errors>>

\* if flg & FCOMMENT: seek to fcomment_start and copy the span
WComment(q) ==
    /\ pc = "workers"
    /\ w[q].pc = "rw_comment"
    /\ IF HasFlag(w[q].meta.flg, FCOMMENT)
       THEN /\ fs' = write(fs, tmp_path(q), comment_span(fs[q], w[q].meta.off))
            /\ w' = [w EXCEPT ![q].pc = "rw_seek",
                              ![q].pos = w[q].meta.off.fcomment_start
                                  + Len(comment_span(fs[q], w[q].meta.off))]
       ELSE /\ w' = [w EXCEPT ![q].pc = "rw_seek"]
            /\ UNCHANGED fs
    /\ UNCHANGED <<seqlocals, pc, total, changed, errors>>

\* inf.seek(payload_from, os.SEEK_SET)
WSeek(q) ==
    /\ pc = "workers"
    /\ w[q].pc = "rw_seek"
    /\ w' = [w EXCEPT ![q].pc = "rw_copy",
                      ![q].pos = payload_from(w[q].meta.flg, w[q].meta.off)]
    /\ UNCHANGED <<seqlocals, pc, fs, total, changed, errors>>

\* one turn of "while True: chunk = inf.read(BUF) ..."
WCopy(q) ==
    /\ pc = "workers"
    /\ w[q].pc = "rw_copy"
    /\ LET chunk == read(fs[q], w[q].pos, BUF) IN
        IF chunk = << >>
        THEN /\ w' = [w EXCEPT ![q].pc = "cf_close"]
             /\ UNCHANGED fs
        ELSE /\ fs' = write(fs, tmp_path(q), chunk)
             /\ w' = [w EXCEPT ![q].pos = w[q].pos + Len(chunk)]
    /\ UNCHANGED <<seqlocals, pc, total, changed, errors>>

\* leaving "with open(tmp, "wb") as outf"
WClose(q) ==
    /\ pc = "workers"
    /\ w[q].pc = "cf_close"
    /\ w' = [w EXCEPT ![q].pc = "cf_replace"]
    /\ UNCHANGED <<seqlocals, pc, fs, total, changed, errors>>

\* os.replace(tmp, path)
WReplace(q) ==
    /\ pc = "workers"
    /\ w[q].pc = "cf_replace"
    /\ fs' = replace(fs, tmp_path(q), q)
    /\ w' = [w EXCEPT ![q].pc = "cf_done"]
    /\ UNCHANGED <<seqlocals, pc, total, changed, errors>>

\* clean_file returned: changed += 1
WCleaned(q) ==
    /\ pc = "workers"
    /\ w[q].pc = "cf_done"
    /\ w' = [w EXCEPT ![q].pc = "done"]
    /\ changed' = changed + 1
    /\ UNCHANGED <<seqlocals, pc, fs, total, errors>>

\* an I/O call of clean_file raises: errors += 1
WCleanRaises(q) ==
    /\ pc = "workers"
    /\ w[q].pc \in CleanFileSteps
    /\ w' = [w EXCEPT ![q].pc = "done", ![q].failed = TRUE]
    /\ errors' = errors + 1
    /\ UNCHANGED <<seqlocals, pc, fs, total, changed>>

\* every worker has finished: return total, changed, errors
Join ==
    /\ pc = "workers"
    /\ \A q \in DOMAIN w : w[q].pc = "done"
    /\ pc' = "summary"
    /\ UNCHANGED <<seqlocals, fs, total, changed, errors, w>>

NextPar ==
    \/ \E q \in DOMAIN w : WCheckOk(q)
    \/ \E q \in DOMAIN w : WCheckRaises(q)
    \/ \E q \in DOMAIN w : WDecide(q)
    \/ \E q \in DOMAIN w : WOpen(q)
    \/ \E q \in DOMAIN w : WParse(q)
    \/ \E q \in DOMAIN w : WOpenTmp(q)
    \/ \E q \in DOMAIN w : WFixed(q)
    \/ \E q \in DOMAIN w : WExtra(q)
    \/ \E q \in DOMAIN w : WComment(q)
    \/ \E q \in DOMAIN w : WSeek(q)
    \/ \E q \in DOMAIN w : WCopy(q)
    \/ \E q \in DOMAIN w : WClose(q)
    \/ \E q \in DOMAIN w : WReplace(q)
    \/ \E q \in DOMAIN w : WCleaned(q)
    \/ \E q \in DOMAIN w : WCleanRaises(q)
    \/ Join
    \/ Summary

SpecPar == InitPar /\ [][NextPar]_vars

\* ================================================================== claims
\* the temporary file of the file being processed, and the two contents
inp == fs[p]
out == fs[tmp_path(p)]

\* the .gz paths of the directory
GzPaths == {q \in DOMAIN orig : q.suffix = <<"gz">>}

\* C1: while clean_file works on a path, the file at that path holds its
\* complete original bytes until the rename and the complete rewritten bytes
\* after it, never a mix: a .gz path changes only in the os.replace step,
\* which is taken only after the copy loop has read to end-of-file and the
\* temporary file is closed, and gives the path exactly the bytes of the
\* closed temporary file; a failure at any step before the rename leaves the
\* original byte-identical.
C1_AtomicReplace ==
    /\ [](pc \in CleanFileSteps => p \in DOMAIN fs /\ fs[p] = atstart[p])
    /\ [][\A q \in GzPaths :
            /\ q \in DOMAIN fs'
            /\ fs'[q] # fs[q] =>
                /\ pc = "cf_replace"
                /\ pc' = "cf_done"
                /\ q = p
                /\ read(fs[p], inf_pos, 1) = << >>
                /\ tmp_path(p) \in DOMAIN fs
                /\ fs'[q] = fs[tmp_path(p)]
                /\ Len(fs[tmp_path(p)]) >= 10]_vars
    /\ [][(pc \in CleanFileSteps /\ pc' = "loop") => fs'[p] = atstart[p]]_vars

\* C1 witness: a write failed in the middle of the copy loop, the temporary
\* file holds a partial copy and the original is intact
W_C1 ==
    /\ pc = "loop"
    /\ i = 2
    /\ run = 1
    /\ run \in faulted
    /\ tmp_path(targets[1]) \in DOMAIN fs
    /\ Len(fs[tmp_path(targets[1])]) > 10
    /\ Len(fs[tmp_path(targets[1])]) < Len(fs[targets[1]]) - 2
    /\ fs[targets[1]] = orig[targets[1]]

\* C2: when the copy loop of rewrite_header_only has finished, what follows
\* the output's own header is exactly the input from payload_start to
\* end-of-file, same bytes in the same order, nothing added or dropped;
\* a later concatenated member is part of it and is copied as it is.
C2_PayloadVerbatim ==
    pc \in {"cf_close", "cf_replace"} =>
        LET ps == meta.off.payload_start
            n == Max(0, Len(inp) - ps)
            po == parse_gzip_header(out)
            hdr == Min(po.off.payload_start, Len(out))
        IN /\ po.ok
           /\ Len(out) - hdr = n
           /\ \A k \in 1..n : out[hdr + k] = inp[ps + k]

\* C2 witness: a two-member file has been copied; the second member, with
\* its FNAME and nonzero MTIME, closes the output
W_C2 ==
    /\ pc = "cf_replace"
    /\ inp = MultiMember
    /\ SubSeq(out, Len(out) - Len(Member2) + 1, Len(out)) = Member2

\* C3: after a rewrite the file's flag byte has FNAME (0x08) and FHCRC (0x02)
\* clear and its MTIME bytes 4..7 are zero, whatever the input had.
C3_FlagsAndMtimeCleared ==
    pc = "cf_done" =>
        /\ ~HasFlag(fs[p][4], 8)
        /\ ~HasFlag(fs[p][4], 2)
        /\ \A k \in 5..8 : fs[p][k] = 0

\* C3 witness: a file that had FNAME, FHCRC and a nonzero MTIME was rewritten
W_C3 ==
    /\ pc = "cf_done"
    /\ HasFlag(atstart[p][4], 8)
    /\ HasFlag(atstart[p][4], 2)
    /\ atstart[p][7] # 0

\* offset just after the first NUL byte at or after offset from
FirstNulEnd(bytes, from) ==
    CHOOSE e \in (from + 1)..Len(bytes) :
        bytes[e] = 0 /\ \A j \in (from + 1)..(e - 1) : bytes[j] # 0

\* layout of a header read off the bytes: end of FEXTRA, FNAME, FCOMMENT
ExtraEndOf(bytes) ==
    IF HasFlag(bytes[4], 4) THEN 12 + bytes[11] + 256 * bytes[12] ELSE 10
NameEndOf(bytes) ==
    IF HasFlag(bytes[4], 8) THEN FirstNulEnd(bytes, ExtraEndOf(bytes))
    ELSE ExtraEndOf(bytes)
CommentEndOf(bytes) ==
    IF HasFlag(bytes[4], 16) THEN FirstNulEnd(bytes, NameEndOf(bytes))
    ELSE NameEndOf(bytes)
PayloadOf(bytes) ==
    IF HasFlag(bytes[4], 2) THEN CommentEndOf(bytes) + 2 ELSE CommentEndOf(bytes)

\* the bytes of the file between two offsets, as far as the file goes
Span(bytes, from, to) == [k \in 1..(Min(to, Len(bytes)) - Min(from, Len(bytes))) |-> bytes[from + k]]

\* C4: the rewritten file has, right after its 10-byte fixed header, the
\* input's FEXTRA span (length field and data) and then the input's FCOMMENT
\* span (string and NUL), both unchanged, and apart from the payload nothing
\* else: the FNAME span and the FHCRC span are not copied.
C4_ExtraCommentPreserved ==
    pc = "cf_done" =>
        LET src == atstart[p]
            X == Span(src, 10, ExtraEndOf(src))
            C == Span(src, NameEndOf(src), CommentEndOf(src))
            P == Span(src, PayloadOf(src), Len(src))
        IN /\ Len(fs[p]) = 10 + Len(X) + Len(C) + Len(P)
           /\ SubSeq(fs[p], 11, 10 + Len(X)) = X
           /\ SubSeq(fs[p], 11 + Len(X), 10 + Len(X) + Len(C)) = C

\* C4 witness: a file with all four optional fields was rewritten
W_C4 ==
    /\ pc = "cf_done"
    /\ atstart[p] = AllFields
    /\ fs[p] = <<31, 139, 8, 20, 0, 0, 0, 0, 2, 255, 2, 0, 7, 9, 99, 0,
                 209, 210, 211>>

\* the first member's MTIME is nonzero or its FNAME flag is set
NeedsRewrite(bytes) ==
    (\E k \in 5..8 : bytes[k] # 0) \/ HasFlag(bytes[4], 8)

\* C5: in a non-dry run the driver calls clean_file on a parseable file
\* exactly when its MTIME is nonzero or its FNAME flag is set; a parseable
\* file with MTIME = 0 and no FNAME keeps its bytes, FHCRC set or not.
C5_RewriteIffMtimeOrFname ==
    /\ [][pc = "decide" /\ ~args.dry_run =>
            (pc' = "cf_open" <=> NeedsRewrite(fs[p]))]_vars
    /\ [](\A q \in GzPaths :
            parse_gzip_header(orig[q]).ok /\ ~NeedsRewrite(orig[q]) =>
                q \in DOMAIN fs /\ fs[q] = orig[q])

\* C5 witness: a file with only FHCRC set went through a non-dry run and
\* still has its FHCRC flag and field
W_C5 ==
    /\ pc = "exit"
    /\ ~args.dry_run
    /\ orig = DirFs(<<FhcrcOnly>>)
    /\ fs = orig
    /\ results[1] = <<1, 0, 0>>

\* C6: after a non-dry run in which no I/O call failed, the next run finds no
\* file satisfying the cleaning predicate, changes no file, creates none, and
\* returns changed = 0.
C6_SecondRunNoOp ==
    (~args.dry_run /\ run >= 2 /\ (run - 1) \notin faulted /\ pc # "main") =>
        /\ fs = atstart
        /\ changed = 0
        /\ pc \notin CleanFileSteps
        /\ (pc = "decide" => ~NeedsRewrite(fs[p]))
        /\ (Len(results) = run => results[run][2] = 0)

\* C6 witness: the first run rewrote a file, the second run has returned
W_C6 ==
    /\ ~args.dry_run
    /\ run = 2
    /\ 1 \notin faulted
    /\ Len(results) = 2
    /\ results[1][2] >= 1
    /\ results[2][2] = 0
    /\ fs # orig

\* C7: a rewritten file is shorter than its input by the FNAME span (if
\* FNAME was present) and by 2 bytes (if FHCRC was present), nothing else.
C7_LengthDelta ==
    pc = "cf_done" =>
        Len(fs[p]) = Len(atstart[p])
            - (IF HasFlag(meta.flg, FNAME)
               THEN meta.off.fname_end - meta.off.fname_start ELSE 0)
            - (IF HasFlag(meta.flg, FHCRC) THEN 2 ELSE 0)

\* the fixed header is valid and the FNAME field can be located
NameLocated(bytes) ==
    /\ Len(bytes) >= 10
    /\ bytes[1] = 31 /\ bytes[2] = 139 /\ bytes[3] = 8
    /\ HasFlag(bytes[4], 4) => Len(bytes) >= 12

\* FNAME is flagged and its bytes run to end-of-file without a NUL
TruncatedName(bytes) ==
    /\ NameLocated(bytes)
    /\ HasFlag(bytes[4], 8)
    /\ \A k \in (ExtraEndOf(bytes) + 1)..Len(bytes) : bytes[k] # 0

\* FCOMMENT is flagged and its bytes run to end-of-file without a NUL
TruncatedComment(bytes) ==
    /\ NameLocated(bytes)
    /\ HasFlag(bytes[4], 16)
    /\ ~TruncatedName(bytes)
    /\ \A k \in (NameEndOf(bytes) + 1)..Len(bytes) : bytes[k] # 0

\* C8: a file whose FNAME (or FCOMMENT) has no NUL terminator before
\* end-of-file makes the parser raise the truncation error of that field; the
\* driver counts one error for it, does not rewrite it, creates no temporary
\* file for it, and its bytes stay as they were.
C8_TruncatedString ==
    /\ [](\A q \in GzPaths :
            /\ TruncatedName(orig[q]) =>
                parse_gzip_header(orig[q]).err = "Truncated FNAME"
            /\ TruncatedComment(orig[q]) =>
                parse_gzip_header(orig[q]).err = "Truncated FCOMMENT"
            /\ TruncatedName(orig[q]) \/ TruncatedComment(orig[q]) =>
                /\ q \in DOMAIN fs
                /\ fs[q] = orig[q]
                /\ tmp_path(q) \notin DOMAIN fs)
    /\ [][pc = "check" /\ (TruncatedName(fs[p]) \/ TruncatedComment(fs[p])) =>
            /\ pc' = "loop"
            /\ i' = i + 1
            /\ errors' = errors + 1
            /\ changed' = changed
            /\ fs' = fs]_vars

\* C8 witness: the driver has counted a file with an unterminated FNAME that
\* has bytes after the header, without any I/O failure
W_C8 ==
    /\ pc = "loop"
    /\ i = 2
    /\ errors = 1
    /\ faulted = {}
    /\ TruncatedName(fs[targets[1]])
    /\ Len(fs[targets[1]]) > 11

\* C9: when FEXTRA is flagged and the file ends before the xlen bytes its
\* length prefix declares, the parser fails, so it never returns offsets with
\* extra_end beyond end-of-file.
C9_TruncatedExtraRejected ==
    pc = "cf_opentmp" =>
        ~(meta.off.extra_end # None /\ meta.off.extra_end > Len(fs[p]))

\* C10: when FHCRC is flagged and fewer than 2 bytes remain at the FHCRC
\* offset, the parser fails, so it never returns a payload_start beyond
\* end-of-file.
C10_TruncatedCrcRejected ==
    pc = "cf_opentmp" =>
        ~(meta.off.fhcrc_off # None /\ Len(fs[p]) - meta.off.fhcrc_off < 2)

\* the files of the run that the parser rejects
Unparseable == {q \in rglob_gz(atstart) : ~parse_gzip_header(atstart[q]).ok}

\* the files of the run whose bytes are no longer those the run started with
Rewritten == {q \in rglob_gz(atstart) : fs[q] # atstart[q]}

InFile == {"check", "decide", "cf_done"} \cup CleanFileSteps

\* C11: the driver visits every discovered .gz path exactly once, in sorted
\* order, and an error in one file (while checking or while rewriting) only
\* counts the error and moves on to the next file; on return total is the
\* number of discovered paths, changed the number of files rewritten, errors
\* the number of files that failed, no file is counted twice, and
\* changed + errors <= total.
C11_DriverCounts ==
    /\ [](pc # "main" =>
            /\ \A a, b \in 1..Len(targets) : a # b => targets[a] # targets[b]
            /\ {targets[k] : k \in 1..Len(targets)} = rglob_gz(atstart)
            /\ changed + errors <= total
            /\ total <= Len(targets)
            /\ (pc \in InFile => total = i /\ changed + errors <= i - 1)
            /\ (pc = "loop" => total = i - 1 /\ changed + errors <= i - 1)
            /\ (pc \in {"summary", "exit"} =>
                    /\ total = Cardinality(rglob_gz(atstart))
                    /\ changed = Cardinality(Rewritten)
                    /\ errors >= Cardinality(Unparseable)
                    /\ (run \notin faulted =>
                            errors = Cardinality(Unparseable))))
    /\ [][errors' > errors =>
            /\ errors' = errors + 1
            /\ changed' = changed
            /\ pc' = "loop"
            /\ i' = i + 1]_vars
    /\ [][changed' > changed =>
            /\ changed' = changed + 1
            /\ errors' = errors
            /\ pc' = "loop"
            /\ i' = i + 1]_vars

\* C11 witness: of two files the first is malformed and the second is
\* rewritten all the same
W_C11 ==
    /\ pc = "exit"
    /\ run = 1
    /\ faulted = {}
    /\ results[1] = <<2, 1, 1>>
    /\ ~parse_gzip_header(orig[GzPath(1)]).ok
    /\ fs[GzPath(2)] # orig[GzPath(2)]

\* C12: every per-file failure increments the error counter and, unless
\* --quiet is given, prints a line for that failure (so also in a run with
\* neither --quiet nor --verbose).
C12_ErrorsPrinted ==
    [][(errors' > errors /\ ~args.quiet) => Len(stdout') > Len(stdout)]_vars

\* C13: after an I/O failure during a rewrite the temporary file no longer
\* exists: whenever the driver is between files, the tree holds no .gz.tmp
\* file.
C13_TmpDiscarded ==
    pc = "loop" => \A q \in DOMAIN fs : q.suffix = <<"gz">>

\* C14: in dry-run mode the driver only parses and decides: clean_file is
\* never entered and no file is modified, created, renamed or deleted.
C14_DryRunNoWrites ==
    args.dry_run => fs = orig /\ pc \notin (CleanFileSteps \cup {"cf_done"})

\* C14 witness: a dry run has passed a file that needs cleaning
W_C14 ==
    /\ args.dry_run
    /\ pc = "loop"
    /\ i = 2
    /\ parse_gzip_header(fs[targets[1]]).ok
    /\ NeedsRewrite(fs[targets[1]])


\* the positions of rewrite_header_only
RewriteSteps == {"rw_fixed", "rw_extra", "rw_comment", "rw_seek", "rw_copy"}

\* C16 (as claimed): parse, decision and rewrite follow each other in that
\* order, and from the end of the parse to the end of the copy neither the
\* read cursor of inf nor the write cursor of outf ever moves back.
C16_CursorsNeverMoveBack ==
    [][(pc \in RewriteSteps /\ pc' \in RewriteSteps \cup {"cf_close"}) =>
            /\ inf_pos' >= inf_pos
            /\ Len(fs'[tmp_path(p)]) >= Len(fs[tmp_path(p)])]_vars

\* C16 (amended): parse, decision and rewrite follow each other in that
\* order and the write cursor only moves forward; the read cursor is moved
\* back only by the first seek of the rewrite, which goes from where the
\* parse left it to the start of FEXTRA (or of FCOMMENT when there is no
\* FEXTRA), and from then on it only moves forward.
C16_ForwardAfterFirstSeek ==
    /\ [][/\ (pc' = "decide" /\ pc # "decide") => pc = "check"
          /\ (pc' = "cf_open" /\ pc # "cf_open") =>
                pc = "decide" /\ need.ok
          /\ (pc' = "rw_fixed" /\ pc # "rw_fixed") =>
                pc = "cf_opentmp" /\ meta.ok]_vars
    /\ [][(pc \in RewriteSteps /\ pc' \in RewriteSteps \cup {"cf_close"}) =>
            /\ Len(fs'[tmp_path(p)]) >= Len(fs[tmp_path(p)])
            /\ inf_pos' < inf_pos =>
                /\ inf_pos = meta.pos
                /\ \/ pc = "rw_extra" /\ HasFlag(meta.flg, FEXTRA)
                   \/ /\ pc = "rw_comment"
                      /\ HasFlag(meta.flg, FCOMMENT)
                      /\ ~HasFlag(meta.flg, FEXTRA)]_vars

\* C16 witness: a header with FEXTRA and FCOMMENT has been copied after the
\* seek back to FEXTRA, and the copy loop has read to end-of-file
W_C16 ==
    /\ pc = "rw_copy"
    /\ HasFlag(meta.flg, FEXTRA)
    /\ HasFlag(meta.flg, FCOMMENT)
    /\ meta.off.extra_len_off < meta.pos
    /\ inf_pos = Len(inp)
    /\ Len(out) > 14

\* C17: in the rewritten fixed header id1, id2, the compression method, xfl
\* and os are those of the input, and every flag bit other than FNAME (0x08)
\* and FHCRC (0x02) keeps its input value.
C17_FixedHeaderFrame ==
    pc = "cf_done" =>
        /\ \A k \in {1, 2, 3, 9, 10} : fs[p][k] = atstart[p][k]
        /\ \A b \in {1, 4, 16, 32, 64, 128} :
                HasFlag(fs[p][4], b) <=> HasFlag(atstart[p][4], b)

\* C17 witness: a header with FTEXT, a reserved bit, FNAME and FHCRC was
\* rewritten and FTEXT and the reserved bit are still set
W_C17 ==
    /\ pc = "cf_done"
    /\ atstart[p][4] = 43
    /\ fs[p][4] = 33

RewriteOf(bytes) ==
    LET m == parse_gzip_header(bytes) IN
    new_fixed(m.h, m.flg)
        \o (IF HasFlag(m.flg, FEXTRA) THEN extra_span(bytes, m.off) ELSE << >>)
        \o (IF HasFlag(m.flg, FCOMMENT) THEN comment_span(bytes, m.off)
            ELSE << >>)
        \o read(bytes, payload_from(m.flg, m.off), Len(bytes))

\* the sequential run rewrites a file to RewriteOf of its bytes
SeqRunRewritesToRewriteOf == pc = "cf_done" => fs[p] = RewriteOf(atstart[p])

\* the sequential driver calls clean_file on the file and clean_file returns
SeqCleans(q) ==
    /\ parse_gzip_header(orig[q]).ok
    /\ NeedsRewrite(orig[q])
    /\ ~args.dry_run
    /\ ~w[q].failed

\* the sequential driver counts an error for the file
SeqErrs(q) == ~parse_gzip_header(orig[q]).ok \/ w[q].failed

IsPrefix(a, b) == Len(a) <= Len(b) /\ a = SubSeq(b, 1, Len(a))

\* C15: workers on distinct files do not interfere: the temporary paths of
\* distinct .gz paths are distinct and match no "*.gz"; whatever the
\* interleaving, a worker's original file keeps its bytes until that worker's
\* rename, its temporary file only ever holds a prefix of its own rewrite,
\* and once all workers are done every file and the merged total, changed
\* and errors are those of the sequential run with the same I/O failures.
C15_WorkersIndependent ==
    /\ \A q \in DOMAIN w, r \in DOMAIN w :
            /\ q # r => tmp_path(q) # tmp_path(r)
            /\ tmp_path(q) \notin rglob_gz(fs)
            /\ tmp_path(q) # r
    /\ \A q \in DOMAIN w :
            /\ q \in DOMAIN fs
            /\ w[q].pc \in {"check", "decide"} \cup CleanFileSteps =>
                    fs[q] = orig[q]
            /\ w[q].pc \in RewriteSteps \cup {"cf_close", "cf_replace"} =>
                    /\ tmp_path(q) \in DOMAIN fs
                    /\ IsPrefix(fs[tmp_path(q)], RewriteOf(orig[q]))
            /\ w[q].pc \in {"rw_extra", "rw_comment", "rw_seek", "rw_copy"} =>
                    Len(fs[tmp_path(q)]) >= 10
            /\ w[q].pc \in {"cf_close", "cf_replace"} =>
                    fs[tmp_path(q)] = RewriteOf(orig[q])
            /\ w[q].pc = "cf_done" => fs[q] = RewriteOf(orig[q])
    /\ pc \in {"summary", "exit"} =>
            /\ \A q \in DOMAIN w :
                    fs[q] = IF SeqCleans(q) THEN RewriteOf(orig[q]) ELSE orig[q]
            /\ total = Len(targets)
            /\ changed = Cardinality({q \in DOMAIN w : SeqCleans(q)})
            /\ errors = Cardinality({q \in DOMAIN w : SeqErrs(q)})

\* C15 witness: two workers are in the copy loop of rewrite_header_only at
\* the same time, each with its own partly written temporary file
W_C15 ==
    /\ pc = "workers"
    /\ DOMAIN w = {GzPath(1), GzPath(2)}
    /\ orig[GzPath(1)] = NameOnly
    /\ orig[GzPath(2)] = ExtraComment
    /\ w[GzPath(1)].pc = "rw_copy"
    /\ w[GzPath(2)].pc = "rw_copy"
    /\ Len(fs[tmp_path(GzPath(1))]) = 10
    /\ Len(fs[tmp_path(GzPath(2))]) = 18

====
